---- MODULE Spec2Model ----
(***************************************************************************)
(* The API-key lifecycle and usage accounting of                           *)
(* scripts/firebase_manager.py (class FirebaseManager) over its two        *)
(* Firestore collections, apiKeys and usageLogs.                           *)
(*                                                                         *)
(* Several callers use one manager concurrently.  A method that talks to   *)
(* the store more than once (revoke, delete, log_usage) is split at each   *)
(* store access; everything else is one step.  Time is counted in days,    *)
(* the unit of every timedelta the code builds.  uuid.uuid4() is modelled  *)
(* as a fresh identifier; secrets.token_hex may return any value of        *)
(* RawKeys, one it returned before included.                               *)
(***************************************************************************)
EXTENDS Integers, Sequences, FiniteSets, TLC

\* ------------------------------------------------------------------ bounds
Callers == {"c1", "c2"}
\* distinct values secrets.token_hex can return
NumRaw == 2
\* the clock runs over 0..MaxTime days
MaxTime == 1
\* requestCount of the credential already in the store at start-up
MaxInitCount == 1
\* usage logs log_usage may add to the store before no new call starts
MaxRecords == 2

\* document ids of apiKeys: 0 is the credential the database already holds,
\* 1 the one create_api_key mints
KeyIds == {0, 1}
RawKeys == 1..NumRaw
\* the arguments create_api_key is called with
CreateArgs ==
    { [ user_id |-> "u1", expires_in_days |-> 1,  rate_limit |-> 1,
        start_delay_days |-> 0 ],
      [ user_id |-> "u1", expires_in_days |-> 1,  rate_limit |-> 1,
        start_delay_days |-> 1 ],
      [ user_id |-> "u1", expires_in_days |-> -1, rate_limit |-> 1,
        start_delay_days |-> 0 ],
      [ user_id |-> "u1", expires_in_days |-> 1,  rate_limit |-> 0,
        start_delay_days |-> 0 ],
      [ user_id |-> "u1", expires_in_days |-> 1,  rate_limit |-> -1,
        start_delay_days |-> 0 ] }
\* the users get_user_api_keys is called with
UserIds == {"u1", "u2"}
\* the status codes log_usage is called with
StatusCodes == {200}
\* the response times (ms) log_usage is called with
ResponseTimes == {5}

\* ------------------------------------------------- field names (as strings)
\* keys of the stored document, ApiKey.to_dict
DocKeys ==
    { <<"i","d">>,
      <<"k","e","y","H","a","s","h">>,
      <<"u","s","e","r","I","d">>,
      <<"u","s","e","r","E","m","a","i","l">>,
      <<"n","a","m","e">>,
      <<"d","e","s","c","r","i","p","t","i","o","n">>,
      <<"c","r","e","a","t","e","d","A","t">>,
      <<"s","t","a","r","t","D","a","t","e">>,
      <<"e","x","p","i","r","e","s","A","t">>,
      <<"i","s","A","c","t","i","v","e">>,
      <<"r","e","q","u","e","s","t","C","o","u","n","t">>,
      <<"r","a","t","e","L","i","m","i","t">>,
      <<"a","l","l","o","w","e","d","E","n","d","p","o","i","n","t","s">>,
      <<"l","a","s","t","U","s","e","d","A","t">>,
      <<"i","p","W","h","i","t","e","l","i","s","t">>,
      <<"m","e","t","a","d","a","t","a">> }

\* fields of the dataclass ApiKey
ApiKeyFields ==
    { <<"i","d">>,
      <<"k","e","y","_","h","a","s","h">>,
      <<"u","s","e","r","_","i","d">>,
      <<"u","s","e","r","_","e","m","a","i","l">>,
      <<"n","a","m","e">>,
      <<"d","e","s","c","r","i","p","t","i","o","n">>,
      <<"c","r","e","a","t","e","d","_","a","t">>,
      <<"s","t","a","r","t","_","d","a","t","e">>,
      <<"e","x","p","i","r","e","s","_","a","t">>,
      <<"i","s","_","a","c","t","i","v","e">>,
      <<"r","e","q","u","e","s","t","_","c","o","u","n","t">>,
      <<"r","a","t","e","_","l","i","m","i","t">>,
      <<"a","l","l","o","w","e","d","_","e","n","d","p","o","i","n","t","s">>,
      <<"l","a","s","t","_","u","s","e","d","_","a","t">>,
      <<"i","p","_","w","h","i","t","e","l","i","s","t">>,
      <<"m","e","t","a","d","a","t","a">> }

\* the fields of ApiKey without a default
ApiKeyRequired ==
    { <<"i","d">>,
      <<"k","e","y","_","h","a","s","h">>,
      <<"u","s","e","r","_","i","d">>,
      <<"u","s","e","r","_","e","m","a","i","l">>,
      <<"n","a","m","e">>,
      <<"d","e","s","c","r","i","p","t","i","o","n">>,
      <<"c","r","e","a","t","e","d","_","a","t">>,
      <<"s","t","a","r","t","_","d","a","t","e">>,
      <<"e","x","p","i","r","e","s","_","a","t">>,
      <<"i","s","_","a","c","t","i","v","e">>,
      <<"r","e","q","u","e","s","t","_","c","o","u","n","t">>,
      <<"r","a","t","e","_","l","i","m","i","t">>,
      <<"a","l","l","o","w","e","d","_","e","n","d","p","o","i","n","t","s">> }

\* str.replace(old, new): every non-overlapping occurrence, left to right
RECURSIVE Replace(_, _, _)
Replace(s, old, new) ==
    IF Len(s) < Len(old) THEN s
    ELSE IF SubSeq(s, 1, Len(old)) = old
         THEN new \o Replace(SubSeq(s, Len(old) + 1, Len(s)), old, new)
         ELSE <<s[1]>> \o Replace(Tail(s), old, new)

\* the chain of replace calls that turns a document key into a keyword
\* argument of ApiKey
RenameKey(k) ==
    Replace(
     Replace(
      Replace(
       Replace(
        Replace(
         Replace(k, <<"A","t">>, <<"_","a","t">>),
         <<"i","s","_">>, <<"i","s","_">>),
        <<"C","o","u","n","t">>, <<"_","c","o","u","n","t">>),
       <<"L","i","m","i","t">>, <<"_","l","i","m","i","t">>),
      <<"E","n","d","p","o","i","n","t","s">>,
      <<"_","e","n","d","p","o","i","n","t","s">>),
     <<"W","h","i","t","e","l","i","s","t">>,
     <<"_","w","h","i","t","e","l","i","s","t">>)

\* the keyword arguments ApiKey(**{...}) receives for a stored document
RenamedKeys == { RenameKey(k) : k \in DocKeys }

\* ApiKey(**kwargs) raises TypeError on a keyword that is no field and on a
\* missing field without default
ApiKeyAccepts(kwargs) ==
    /\ kwargs \subseteq ApiKeyFields
    /\ ApiKeyRequired \subseteq kwargs

\* ------------------------------------------------------------- timestamps
\* datetime.isoformat() + "Z"
IsoZ(t) == [iso |-> t, suffix |-> "Z"]

\* s.replace("Z", "")
StripZ(s) == [iso |-> s.iso, suffix |-> ""]

\* datetime.fromisoformat of a string without suffix
fromisoformat(s) == s.iso

\* last_used_at = None
NoTimestamp == [iso |-> -1, suffix |-> "None"]

\* ----------------------------------------------------------------- secrets
\* the values generate_api_key can return
generate_api_key == RawKeys

\* sha256(key).hexdigest(): deterministic, never the key itself
hash_api_key(key) == [sha256 |-> key]

\* ------------------------------------------------------------------- state
VARIABLES
    db,         \* TRUE: self.db is a Firestore client; FALSE: None (demo mode)
    now,        \* datetime.utcnow(), in days
    apiKeys,    \* collection apiKeys: id -> document, or Absent
    usageLogs,  \* collection usageLogs: the set of documents
    nextKey,    \* the next id uuid4 gives a credential
    nextLog,    \* the next id uuid4 gives a usage log
    pc,         \* per caller: where it is inside a method
    loc,        \* per caller: the locals of the method it is inside
    ret         \* what the last finished call returned or raised

vars == <<db, now, apiKeys, usageLogs, nextKey, nextLog, pc, loc, ret>>

\* no document under this id
Absent == [id |-> -1]

\* no locals
NoLoc == [key |-> -1]

\* ApiKey.to_dict: the document written for an ApiKey
to_dict(api_key) ==
    [ id           |-> api_key.id,
      keyHash      |-> api_key.key_hash,
      userId       |-> api_key.user_id,
      startDate    |-> api_key.start_date,
      expiresAt    |-> api_key.expires_at,
      isActive     |-> api_key.is_active,
      requestCount |-> api_key.request_count,
      rateLimit    |-> api_key.rate_limit,
      lastUsedAt   |-> api_key.last_used_at ]

\* the credential the database already holds when the manager connects to
\* it: created on day 0 for user u1 with raw key 1, expires_in_days = 1, rate_limit = 1,
\* and counted c requests since
StoredKey(c) ==
    to_dict([ id            |-> 0,
              key_hash      |-> hash_api_key(1),
              user_id       |-> "u1",
              start_date    |-> IsoZ(0),
              expires_at    |-> IsoZ(1),
              is_active     |-> TRUE,
              request_count |-> c,
              rate_limit    |-> 1,
              last_used_at  |-> IF c = 0 THEN NoTimestamp ELSE IsoZ(0) ])

\* the usage logs that go with StoredKey(c)
StoredLogs(c) ==
    { [ id |-> -i, apiKeyId |-> 0, statusCode |-> 200, responseTime |-> 5,
        timestamp |-> IsoZ(0) ]
        : i \in 1..c }

\* FirebaseManager.__init__: a client of an existing database, or demo mode
Init ==
    /\ db \in BOOLEAN
    /\ now = 0
    /\ \E c \in 0..MaxInitCount :
         /\ apiKeys = [k \in KeyIds |->
                         IF db /\ k = 0 THEN StoredKey(c) ELSE Absent]
         /\ usageLogs = IF db THEN StoredLogs(c) ELSE {}
    /\ nextKey = 1
    /\ nextLog = 1
    /\ pc = [c \in Callers |-> "idle"]
    /\ loc = [c \in Callers |-> NoLoc]
    /\ ret = [op |-> "none"]

\* the passing of time
Tick ==
    /\ now < MaxTime
    /\ now' = now + 1
    /\ UNCHANGED <<db, apiKeys, usageLogs, nextKey, nextLog, pc, loc, ret>>

\* ------------------------------------------------------------------ create
\* create that stores the record without looking at self.db
create_api_key_stores_always(c, user_id, raw_key, expires_in_days, rate_limit, start_delay_days) ==
    /\ pc[c] = "idle"
    /\ nextKey \in KeyIds
    /\ LET start_date == now + start_delay_days
           api_key == [ id            |-> nextKey,
                        key_hash      |-> hash_api_key(raw_key),
                        user_id       |-> user_id,
                        start_date    |-> IsoZ(start_date),
                        expires_at    |-> IsoZ(start_date + expires_in_days),
                        is_active     |-> TRUE,
                        request_count |-> 0,
                        rate_limit    |-> rate_limit,
                        last_used_at  |-> NoTimestamp ]
       IN /\ apiKeys' = [apiKeys EXCEPT ![api_key.id] = to_dict(api_key)]
          /\ ret' = [ op |-> "create_api_key", kind |-> "return",
                      val |-> "ApiKey", rec |-> api_key, raw |-> raw_key,
                      expires_in_days |-> expires_in_days ]
    /\ nextKey' = nextKey + 1
    /\ UNCHANGED <<db, now, usageLogs, nextLog, pc, loc>>

create_api_key(c, user_id, raw_key, expires_in_days, rate_limit, start_delay_days) ==
    /\ pc[c] = "idle"
    /\ nextKey \in KeyIds
    /\ LET start_date == now + start_delay_days
           expires_at == start_date + expires_in_days
           api_key == [ id            |-> nextKey,
                        key_hash      |-> hash_api_key(raw_key),
                        user_id       |-> user_id,
                        start_date    |-> IsoZ(start_date),
                        expires_at    |-> IsoZ(expires_at),
                        is_active     |-> TRUE,
                        request_count |-> 0,
                        rate_limit    |-> rate_limit,
                        last_used_at  |-> NoTimestamp ]
       IN /\ apiKeys' = IF db
                        THEN [apiKeys EXCEPT ![api_key.id] = to_dict(api_key)]
                        ELSE apiKeys
          /\ ret' = [ op |-> "create_api_key", kind |-> "return",
                      val |-> "ApiKey", rec |-> api_key, raw |-> raw_key,
                      expires_in_days |-> expires_in_days ]
    /\ nextKey' = nextKey + 1
    /\ UNCHANGED <<db, now, usageLogs, nextLog, pc, loc>>

\* ---------------------------------------------------------------- validate
\* lines 162-187 for the document the query returned: the ApiKey built from
\* it, then the checks in the order of the code
validate_doc(raw_key, d, t) ==
    IF ~ApiKeyAccepts(RenamedKeys)
    THEN [ kind |-> "raise", val |-> "TypeError", msg |-> "" ]
    ELSE IF ~d.isActive
    THEN [ kind |-> "return", val |-> "None", msg |-> "API key is revoked" ]
    ELSE IF t < fromisoformat(StripZ(d.startDate))
    THEN [ kind |-> "return", val |-> "None", msg |-> "API key not yet active" ]
    ELSE IF t > fromisoformat(StripZ(d.expiresAt))
    THEN [ kind |-> "return", val |-> "None", msg |-> "API key expired" ]
    ELSE [ kind |-> "return", val |-> "ApiKey", msg |-> "API key valid" ]

\* where("keyHash", "==", key_hash): the ids of the matching documents
KeysWithHash(key_hash) ==
    { k \in KeyIds : apiKeys[k] # Absent /\ apiKeys[k].keyHash = key_hash }

\* validate that also counts the request on the record it found
validate_api_key_counts(c, raw_key) ==
    /\ pc[c] = "idle"
    /\ db
    /\ \E k \in KeysWithHash(hash_api_key(raw_key)) :
         /\ apiKeys' = [apiKeys EXCEPT
                          ![k].requestCount = apiKeys[k].requestCount + 1]
         /\ ret' = [ op |-> "validate_api_key", raw |-> raw_key, at |-> now,
                     match |-> k ]
                   @@ validate_doc(raw_key, apiKeys[k], now)
    /\ UNCHANGED <<db, now, usageLogs, nextKey, nextLog, pc, loc>>

validate_api_key(c, raw_key) ==
    /\ pc[c] = "idle"
    /\ LET key_hash == hash_api_key(raw_key)
           base == [ op |-> "validate_api_key", raw |-> raw_key,
                     at |-> now ]
       IN IF ~db
          THEN ret' = base @@ [ kind |-> "return", val |-> "None", msg |-> "",
                                match |-> -1 ]
          ELSE IF KeysWithHash(key_hash) = {}
          THEN ret' = base @@ [ kind |-> "return", val |-> "None",
                                msg |-> "API key not found", match |-> -1 ]
          ELSE \E k \in KeysWithHash(key_hash) :   \* limit(1)
                 ret' = base @@ validate_doc(raw_key, apiKeys[k], now)
                             @@ [ match |-> k ]
    /\ UNCHANGED <<db, now, apiKeys, usageLogs, nextKey, nextLog, pc, loc>>

\* ------------------------------------------------------------------ revoke
\* revoke that reports success without looking the document up
revoke_get_always_true(c, key_id) ==
    /\ pc[c] = "idle"
    /\ ret' = [ op |-> "revoke_api_key", key |-> key_id,
                kind |-> "return", val |-> "True",
                existed |-> db /\ apiKeys[key_id] # Absent,
                was_active |-> FALSE ]
    /\ UNCHANGED <<db, now, apiKeys, usageLogs, nextKey, nextLog, pc, loc>>

\* lines 191-193 and 197: the existence check
revoke_get(c, key_id) ==
    /\ pc[c] = "idle"
    /\ IF db /\ apiKeys[key_id] # Absent
       THEN /\ pc' = [pc EXCEPT ![c] = "revoke_update"]
            /\ loc' = [loc EXCEPT ![c] = [key |-> key_id]]
            /\ ret' = ret
       ELSE /\ ret' = [ op |-> "revoke_api_key", key |-> key_id,
                        kind |-> "return", val |-> "False",
                        existed |-> FALSE, was_active |-> FALSE ]
            /\ UNCHANGED <<pc, loc>>
    /\ UNCHANGED <<db, now, apiKeys, usageLogs, nextKey, nextLog>>

\* revoke whose update also starts the request count over
revoke_update_resets_count(c) ==
    /\ pc[c] = "revoke_update"
    /\ LET key_id == loc[c].key
       IN /\ apiKeys[key_id] # Absent
          /\ apiKeys' = [apiKeys EXCEPT ![key_id].isActive = FALSE,
                                        ![key_id].requestCount = 0]
          /\ ret' = [ op |-> "revoke_api_key", key |-> key_id,
                      existed |-> TRUE, kind |-> "return", val |-> "True",
                      was_active |-> apiKeys[key_id].isActive ]
    /\ pc' = [pc EXCEPT ![c] = "idle"]
    /\ loc' = [loc EXCEPT ![c] = NoLoc]
    /\ UNCHANGED <<db, now, usageLogs, nextKey, nextLog>>

\* revoke whose update flips isActive
revoke_update_toggles(c) ==
    /\ pc[c] = "revoke_update"
    /\ LET key_id == loc[c].key
       IN /\ apiKeys[key_id] # Absent
          /\ apiKeys' = [apiKeys EXCEPT
                           ![key_id].isActive = ~apiKeys[key_id].isActive]
          /\ ret' = [ op |-> "revoke_api_key", key |-> key_id,
                      existed |-> TRUE, kind |-> "return", val |-> "True",
                      was_active |-> apiKeys[key_id].isActive ]
    /\ pc' = [pc EXCEPT ![c] = "idle"]
    /\ loc' = [loc EXCEPT ![c] = NoLoc]
    /\ UNCHANGED <<db, now, usageLogs, nextKey, nextLog>>

\* lines 194-196: key_ref.update({"isActive": False}); update of a document
\* that is no longer there raises NotFound and writes nothing
revoke_update(c) ==
    /\ pc[c] = "revoke_update"
    /\ LET key_id == loc[c].key
           base == [ op |-> "revoke_api_key", key |-> key_id,
                     existed |-> TRUE ]
       IN IF apiKeys[key_id] # Absent
          THEN /\ apiKeys' = [apiKeys EXCEPT ![key_id].isActive = FALSE]
               /\ ret' = base @@ [ kind |-> "return", val |-> "True",
                                   was_active |-> apiKeys[key_id].isActive ]
          ELSE /\ apiKeys' = apiKeys
               /\ ret' = base @@ [ kind |-> "raise", val |-> "NotFound",
                                   was_active |-> FALSE ]
    /\ pc' = [pc EXCEPT ![c] = "idle"]
    /\ loc' = [loc EXCEPT ![c] = NoLoc]
    /\ UNCHANGED <<db, now, usageLogs, nextKey, nextLog>>

\* ------------------------------------------------------------------ delete
\* lines 201-203 and 207: the existence check (hash: the digest of the
\* record found, kept to tell whose secret is validated afterwards)
delete_get(c, key_id) ==
    /\ pc[c] = "idle"
    /\ IF db /\ apiKeys[key_id] # Absent
       THEN /\ pc' = [pc EXCEPT ![c] = "delete_delete"]
            /\ loc' = [loc EXCEPT ![c] =
                         [ key |-> key_id, hash |-> apiKeys[key_id].keyHash ]]
            /\ ret' = ret
       ELSE /\ ret' = [ op |-> "delete_api_key", key |-> key_id,
                        kind |-> "return", val |-> "False", existed |-> FALSE,
                        hash |-> hash_api_key(0) ]
            /\ UNCHANGED <<pc, loc>>
    /\ UNCHANGED <<db, now, apiKeys, usageLogs, nextKey, nextLog>>

\* delete that empties the whole collection
delete_delete_all(c) ==
    /\ pc[c] = "delete_delete"
    /\ apiKeys' = [k \in KeyIds |-> Absent]
    /\ ret' = [ op |-> "delete_api_key", key |-> loc[c].key,
                kind |-> "return", val |-> "True", existed |-> TRUE,
                hash |-> loc[c].hash ]
    /\ pc' = [pc EXCEPT ![c] = "idle"]
    /\ loc' = [loc EXCEPT ![c] = NoLoc]
    /\ UNCHANGED <<db, now, usageLogs, nextKey, nextLog>>

\* lines 204-206: key_ref.delete(), which succeeds on a missing document too
delete_delete(c) ==
    /\ pc[c] = "delete_delete"
    /\ LET key_id == loc[c].key
       IN /\ apiKeys' = [apiKeys EXCEPT ![key_id] = Absent]
          /\ ret' = [ op |-> "delete_api_key", key |-> key_id,
                      kind |-> "return", val |-> "True", existed |-> TRUE,
                      hash |-> loc[c].hash ]
    /\ pc' = [pc EXCEPT ![c] = "idle"]
    /\ loc' = [loc EXCEPT ![c] = NoLoc]
    /\ UNCHANGED <<db, now, usageLogs, nextKey, nextLog>>

\* --------------------------------------------------------------- log_usage
\* firestore imported at module level
firestore_at_module_level == TRUE

\* whether the name firestore resolves where log_usage evaluates the
\* decorator @firestore.transactional: the only import of firestore is local
\* to __init__, so it does not
firestore_in_scope == FALSE

\* the transaction body, applied atomically: the stores after it and the
\* exception it raised, if any.  snapshot.get("requestCount") of a missing
\* document is None, and None + 1 raises TypeError before any write
update_in_transaction(key_id, log_data) ==
    IF apiKeys[key_id] = Absent
    THEN [ apiKeys |-> apiKeys, usageLogs |-> usageLogs, exc |-> "TypeError" ]
    ELSE [ apiKeys |->
             [apiKeys EXCEPT
                ![key_id].requestCount = apiKeys[key_id].requestCount + 1,
                ![key_id].lastUsedAt = log_data.timestamp],
           usageLogs |-> usageLogs \cup {log_data},
           exc |-> "" ]

\* lines 227-239: the demo-mode return, else the UsageLog with its
\* timestamp (its uuid4 id is fresh; it is numbered when it is written)
log_usage_begin(c, api_key_id, status_code, response_time) ==
    /\ pc[c] = "idle"
    /\ IF ~db
       THEN /\ ret' = [ op |-> "log_usage", key |-> api_key_id,
                        kind |-> "return", val |-> "None",
                        existed |-> FALSE, before |-> 0, limit |-> 0,
                        timestamp |-> IsoZ(now) ]
            /\ UNCHANGED <<pc, loc>>
       ELSE /\ nextLog <= MaxRecords
            /\ pc' = [pc EXCEPT ![c] = "log_txn"]
            /\ loc' = [loc EXCEPT ![c] =
                         [ key |-> api_key_id,
                           statusCode |-> status_code,
                           responseTime |-> response_time,
                           timestamp |-> IsoZ(now) ]]
            /\ ret' = ret
    /\ UNCHANGED <<db, now, apiKeys, usageLogs, nextKey, nextLog>>

\* log_usage with the usage log written by itself before the transaction
log_usage_txn_log_first(c) ==
    /\ pc[c] = "log_txn"
    /\ LET key_id == loc[c].key
           existed == apiKeys[key_id] # Absent
       IN /\ usageLogs' = usageLogs \cup
                            { [ id           |-> nextLog,
                                apiKeyId     |-> key_id,
                                statusCode   |-> loc[c].statusCode,
                                responseTime |-> loc[c].responseTime,
                                timestamp    |-> loc[c].timestamp ] }
          /\ nextLog' = nextLog + 1
          /\ ret' = [ op |-> "log_usage", key |-> key_id, existed |-> existed,
                      before |-> IF existed THEN apiKeys[key_id].requestCount
                                 ELSE 0,
                      limit |-> IF existed THEN apiKeys[key_id].rateLimit
                                ELSE 0,
                      timestamp |-> loc[c].timestamp,
                      kind |-> "raise", val |-> "NameError" ]
    /\ pc' = [pc EXCEPT ![c] = "idle"]
    /\ loc' = [loc EXCEPT ![c] = NoLoc]
    /\ UNCHANGED <<db, now, apiKeys, nextKey>>

\* lines 241-256: the decorated transaction function is defined, then run
log_usage_txn(c) ==
    /\ pc[c] = "log_txn"
    /\ LET key_id == loc[c].key
           existed == apiKeys[key_id] # Absent
           base == [ op |-> "log_usage", key |-> key_id, existed |-> existed,
                     before |-> IF existed THEN apiKeys[key_id].requestCount
                                ELSE 0,
                     limit |-> IF existed THEN apiKeys[key_id].rateLimit
                               ELSE 0,
                     timestamp |-> loc[c].timestamp ]
           log == [ id           |-> nextLog,
                    apiKeyId     |-> key_id,
                    statusCode   |-> loc[c].statusCode,
                    responseTime |-> loc[c].responseTime,
                    timestamp    |-> loc[c].timestamp ]
           txn == update_in_transaction(key_id, log)
       IN /\ IF ~firestore_in_scope
             THEN /\ UNCHANGED <<apiKeys, usageLogs, nextLog>>
                  /\ ret' = base @@ [ kind |-> "raise", val |-> "NameError" ]
             ELSE /\ apiKeys' = txn.apiKeys
                  /\ usageLogs' = txn.usageLogs
                  /\ nextLog' = IF txn.exc = "" THEN nextLog + 1 ELSE nextLog
                  /\ ret' = base @@
                            IF txn.exc = ""
                            THEN [ kind |-> "return", val |-> "UsageLog" ]
                            ELSE [ kind |-> "raise", val |-> txn.exc ]
    /\ pc' = [pc EXCEPT ![c] = "idle"]
    /\ loc' = [loc EXCEPT ![c] = NoLoc]
    /\ UNCHANGED <<db, now, nextKey>>

\* ---------------------------------------------------------------- rate limit
\* line 260
check_rate_limit(api_key) == api_key.request_count < api_key.rate_limit

\* the ApiKey objects a caller passes to check_rate_limit
ApiKeyArgs ==
    [ id : KeyIds, request_count : 0..MaxInitCount, rate_limit : {1} ]

\* a call of check_rate_limit
CheckRateLimit(c, api_key) ==
    /\ pc[c] = "idle"
    /\ ret' = [ op |-> "check_rate_limit", rec |-> api_key, kind |-> "return",
                val |-> IF check_rate_limit(api_key) THEN "True" ELSE "False" ]
    /\ UNCHANGED <<db, now, apiKeys, usageLogs, nextKey, nextLog, pc, loc>>

\* -------------------------------------------------------------------- list
\* where("userId", "==", user_id): the ids of the matching documents
KeysOfUser(user_id) ==
    { k \in KeyIds : apiKeys[k] # Absent /\ apiKeys[k].userId = user_id }

\* lines 211-213: one ApiKey(**{...}) per matching document; n is the length
\* of the list returned
get_user_api_keys(c, user_id) ==
    /\ pc[c] = "idle"
    /\ LET base == [ op |-> "get_user_api_keys", user |-> user_id ]
       IN ret' = IF ~db
                 THEN base @@ [ kind |-> "return", val |-> "list", n |-> 0 ]
                 ELSE IF KeysOfUser(user_id) # {} /\ ~ApiKeyAccepts(RenamedKeys)
                 THEN base @@ [ kind |-> "raise", val |-> "TypeError",
                                n |-> 0 ]
                 ELSE base @@ [ kind |-> "return", val |-> "list",
                                n |-> Cardinality(KeysOfUser(user_id)) ]
    /\ UNCHANGED <<db, now, apiKeys, usageLogs, nextKey, nextLog, pc, loc>>

\* ------------------------------------------------------------------- stats
\* where("apiKeyId", "==", api_key_id): the usage logs of a credential
LogsOf(k) == { l \in usageLogs : l.apiKeyId = k }

\* whether a row of logs answers l.status_code and l.response_time: the rows
\* are the dicts of log.to_dict(), whose entries are keys, not attributes
rows_have_attributes == FALSE

\* sum(l.response_time for l in logs)
RECURSIVE SumResponseTime(_)
SumResponseTime(logs) ==
    IF logs = {} THEN 0
    ELSE LET l == CHOOSE x \in logs : TRUE
         IN l.responseTime + SumResponseTime(logs \ {l})

\* round(num / den, 2), in hundredths
Round2(num, den) == (2 * 100 * num + den) \div (2 * den)

\* lines 268-280: the dictionary returned for a list of logs
usage_stats(logs) ==
    IF logs = {}
    THEN [ totalRequests |-> 0, avgResponseTime |-> 0, successRate |-> 0 ]
    ELSE LET total == Cardinality(logs)
             success == Cardinality({ l \in logs : 200 <= l.statusCode
                                                   /\ l.statusCode < 300 })
         IN [ totalRequests   |-> total,
              avgResponseTime |-> Round2(SumResponseTime(logs), total),
              successRate     |-> Round2(success * 100, total),
              errorCount      |-> total - success ]

get_usage_stats(c, api_key_id) ==
    /\ pc[c] = "idle"
    /\ LET logs == LogsOf(api_key_id)
           base == [ op |-> "get_usage_stats", key |-> api_key_id ]
       IN ret' = IF ~db
                 THEN base @@ [ kind |-> "return", val |-> "dict",
                                stats |-> <<>> ]
                 ELSE IF logs # {} /\ ~rows_have_attributes
                 THEN base @@ [ kind |-> "raise", val |-> "AttributeError",
                                stats |-> <<>> ]
                 ELSE base @@ [ kind |-> "return", val |-> "dict",
                                stats |-> usage_stats(logs) ]
    /\ UNCHANGED <<db, now, apiKeys, usageLogs, nextKey, nextLog, pc, loc>>

Next ==
    \/ Tick
    \/ \E c \in Callers, raw_key \in generate_api_key, a \in CreateArgs :
         create_api_key(c, a.user_id, raw_key, a.expires_in_days,
                        a.rate_limit, a.start_delay_days)
    \/ \E c \in Callers, raw_key \in RawKeys : validate_api_key(c, raw_key)
    \/ \E c \in Callers, key_id \in KeyIds : revoke_get(c, key_id)
    \/ \E c \in Callers : revoke_update(c)
    \/ \E c \in Callers, key_id \in KeyIds : delete_get(c, key_id)
    \/ \E c \in Callers : delete_delete(c)
    \/ \E c \in Callers, key_id \in KeyIds, status_code \in StatusCodes,
          response_time \in ResponseTimes :
         log_usage_begin(c, key_id, status_code, response_time)
    \/ \E c \in Callers : log_usage_txn(c)
    \/ \E c \in Callers, api_key \in ApiKeyArgs : CheckRateLimit(c, api_key)
    \/ \E c \in Callers, key_id \in KeyIds : get_usage_stats(c, key_id)
    \/ \E c \in Callers, user_id \in UserIds : get_user_api_keys(c, user_id)

Spec == Init /\ [][Next]_vars

\* a caller that is inside a method runs it to its end: the methods have no
\* loop and no wait between their two store calls
LiveSpec ==
    /\ Init /\ [][Next]_vars
    /\ \A c \in Callers : /\ WF_vars(log_usage_txn(c))
                          /\ WF_vars(revoke_update(c))
                          /\ WF_vars(delete_delete(c))

\* the calls of callers that keep to the protocol validate_api_key, then
\* check_rate_limit on the ApiKey it returned, then log_usage after True:
\* validate_api_key never returns an ApiKey (validate_doc raises TypeError for
\* every stored document, and a missing one gives None), so such callers
\* never get to check_rate_limit or log_usage
ProtocolNext ==
    \/ Tick
    \/ \E c \in Callers, raw_key \in generate_api_key, a \in CreateArgs :
         create_api_key(c, a.user_id, raw_key, a.expires_in_days,
                        a.rate_limit, a.start_delay_days)
    \/ \E c \in Callers, raw_key \in RawKeys : validate_api_key(c, raw_key)
    \/ \E c \in Callers, key_id \in KeyIds : revoke_get(c, key_id)
    \/ \E c \in Callers : revoke_update(c)
    \/ \E c \in Callers, key_id \in KeyIds : delete_get(c, key_id)
    \/ \E c \in Callers : delete_delete(c)
    \/ \E c \in Callers, key_id \in KeyIds : get_usage_stats(c, key_id)
    \/ \E c \in Callers, user_id \in UserIds : get_user_api_keys(c, user_id)

ProtocolSpec == Init /\ [][ProtocolNext]_vars

\* ================================================================== claims
\* the stored document read as an ApiKey, for check_rate_limit
Current(k) == [ id |-> k, request_count |-> apiKeys[k].requestCount,
                rate_limit |-> apiKeys[k].rateLimit ]

\* C1: no lost update.  Every record call that finishes against an existing
\* credential has committed: requestCount is one more than the count its
\* transaction read and the credential has one more usage log, so that N
\* calls, in any interleaving, take requestCount from c to c + N with N new
\* logs.
C1_NoLostUpdate ==
    (ret.op = "log_usage" /\ ret.existed) =>
        /\ ret.kind = "return"
        /\ apiKeys[ret.key].requestCount = ret.before + 1
        /\ Cardinality(LogsOf(ret.key)) = ret.before + 1

\* C2: the counter increment and the log insert of a record call are applied
\* together or not at all, also after a record call failed: every existing
\* credential has exactly as many usage logs as its requestCount says, and
\* no usage log names a credential that was never created.
C2_IncrementAndLogTogether ==
    /\ \A k \in KeyIds :
          apiKeys[k] # Absent =>
              Cardinality(LogsOf(k)) = apiKeys[k].requestCount
    /\ \A l \in usageLogs : l.apiKeyId < nextKey

\* C2, its case: a record call against an existing credential has failed
C2_Witness ==
    db /\ ret.op = "log_usage" /\ ret.existed /\ ret.kind = "raise"

\* C3: validate of the raw secret of a stored record reports the first
\* failing check: Revoked for a record with isActive = false whatever the
\* time, NotYetActive for an active record before its activeFrom.
C3_RejectionOrder ==
    (ret.op = "validate_api_key" /\ ret.match # -1) =>
        LET d == apiKeys[ret.match]
        IN /\ ~d.isActive =>
                 /\ ret.kind = "return"
                 /\ ret.val = "None"
                 /\ ret.msg = "API key is revoked"
           /\ (d.isActive /\ ret.at < fromisoformat(StripZ(d.startDate))) =>
                 /\ ret.kind = "return"
                 /\ ret.val = "None"
                 /\ ret.msg = "API key not yet active"

\* C4: validate of the raw secret of an issued record that is still stored
\* and active, at a time within [activeFrom, expiresAt], returns that record
\* and raises nothing.
C4_ValidateAfterIssue ==
    (ret.op = "validate_api_key" /\ ret.match # -1) =>
        LET d == apiKeys[ret.match]
        IN (/\ d.isActive
            /\ fromisoformat(StripZ(d.startDate)) <= ret.at
            /\ ret.at <= fromisoformat(StripZ(d.expiresAt))) =>
               /\ ret.kind = "return"
               /\ ret.val = "ApiKey"
               /\ d.keyHash = hash_api_key(ret.raw)

\* C5: once isActive of a credential is false, no step increases its
\* requestCount or adds a usage log for it.
C5_NoUsageAfterRevoke ==
    [][\A k \in KeyIds :
         (apiKeys[k] # Absent /\ ~apiKeys[k].isActive) =>
             /\ apiKeys'[k] # Absent =>
                    apiKeys'[k].requestCount = apiKeys[k].requestCount
             /\ { l \in usageLogs' : l.apiKeyId = k } = LogsOf(k)]_vars

\* C5, its case: a record call against a revoked credential has finished
C5_Witness ==
    /\ db
    /\ ret.op = "log_usage"
    /\ ret.existed
    /\ ~apiKeys[ret.key].isActive

C7_IssueValidates ==
    /\ \A k \in KeyIds :
          apiKeys[k] # Absent =>
              /\ fromisoformat(StripZ(apiKeys[k].startDate))
                    <= fromisoformat(StripZ(apiKeys[k].expiresAt))
              /\ apiKeys[k].rateLimit >= 1
    /\ (/\ db
        /\ ret.op = "create_api_key"
        /\ (ret.expires_in_days <= 0 \/ ret.rec.rate_limit <= 0)) =>
           /\ ret.kind = "raise"
           /\ ret.val = "ValidationError"
           /\ apiKeys[ret.rec.id] = Absent

\* C8: the rate-limit decision reflects the requestCount stored at decision
\* time, not the value carried by the record it is given.
C8_LatestCounter ==
    (ret.op = "check_rate_limit" /\ apiKeys[ret.rec.id] # Absent) =>
        (ret.val = "True" <=> check_rate_limit(Current(ret.rec.id)))

\* C9: isWithinRateLimit(record) is true iff record.requestCount <
\* record.rateLimit, and for a credential with rateLimit = L the check on the
\* current record after its k-th record call is true exactly when k < L.
C9_FalseAfterLimit ==
    /\ ret.op = "check_rate_limit" =>
          (ret.val = "True" <=> ret.rec.request_count < ret.rec.rate_limit)
    /\ (ret.op = "log_usage" /\ ret.existed) =>
          (check_rate_limit(Current(ret.key)) <=> ret.before + 1 < ret.limit)

\* C10: the Accountant does not enforce the cap.  A record call against an
\* existing credential with requestCount >= rateLimit commits, increments
\* requestCount by one and adds one usage log; issue stores requestCount = 0
\* and isActive = true.
C10_NoCapInAccountant ==
    /\ (ret.op = "log_usage" /\ ret.existed /\ ret.before >= ret.limit) =>
          /\ ret.kind = "return"
          /\ apiKeys[ret.key].requestCount = ret.before + 1
          /\ Cardinality(LogsOf(ret.key)) = ret.before + 1
    /\ (ret.op = "create_api_key" /\ db) =>
          /\ apiKeys[ret.rec.id].requestCount = 0
          /\ apiKeys[ret.rec.id].isActive

\* C11: validate never changes the store.  A step that ends a validate call,
\* accepted, rejected or raising, leaves every credential record and every
\* usage log as it was.
C11_ValidateReadsOnly ==
    [][ret'.op = "validate_api_key" =>
          /\ apiKeys' = apiKeys
          /\ usageLogs' = usageLogs]_vars

\* C11, its case: a validate call has found a stored record
C11_Witness ==
    db /\ ret.op = "validate_api_key" /\ ret.match # -1

\* C12: secretDigest is unique across the stored records: issue never stores
\* a second record with the digest of a stored one, so the lookup of a raw
\* secret never has more than one candidate.
C12_DigestUnique ==
    \A raw_key \in RawKeys :
        Cardinality(KeysWithHash(hash_api_key(raw_key))) <= 1

\* C13: delete returns true exactly when the record existed, the record is
\* absent afterwards, no usage log is touched, and a validate of the deleted
\* credential's raw secret that follows is rejected as not found.
C13_DeleteRemoves ==
    [][/\ ret'.op = "delete_api_key" =>
             /\ ret'.kind = "return"
             /\ ret'.val = "True" <=> ret'.existed
             /\ apiKeys'[ret'.key] = Absent
             /\ usageLogs' = usageLogs
       /\ (/\ ret.op = "delete_api_key"
           /\ ret.val = "True"
           /\ ret'.op = "validate_api_key"
           /\ hash_api_key(ret'.raw) = ret.hash) =>
              /\ ret'.kind = "return"
              /\ ret'.val = "None"
              /\ ret'.msg = "API key not found"]_vars

\* C14: stats of a credential with usage logs returns totalRequests = the
\* number of its logs, errorCount = the number of those with a status code
\* outside 200..299 and successRate = the share of the others in percent,
\* and totalRequests is the requestCount of the credential.
C14_StatsCounts ==
    (db /\ ret.op = "get_usage_stats" /\ LogsOf(ret.key) # {}) =>
        LET logs == LogsOf(ret.key)
            ok == { l \in logs : 200 <= l.statusCode /\ l.statusCode < 300 }
        IN /\ ret.kind = "return"
           /\ ret.stats.totalRequests = Cardinality(logs)
           /\ ret.stats.errorCount = Cardinality(logs \ ok)
           /\ ret.stats.successRate
                 = Round2(100 * Cardinality(ok), Cardinality(logs))
           /\ apiKeys[ret.key] # Absent =>
                 ret.stats.totalRequests = apiKeys[ret.key].requestCount

\* C15: stats of a credential without usage logs returns all four fields,
\* each 0.
C15_StatsOfNoLogs ==
    (db /\ ret.op = "get_usage_stats" /\ LogsOf(ret.key) = {}) =>
        /\ ret.kind = "return"
        /\ DOMAIN ret.stats = { "totalRequests", "avgResponseTime",
                                "successRate", "errorCount" }
        /\ \A f \in DOMAIN ret.stats : ret.stats[f] = 0

\* C16: the requestCount of every credential is >= 0 and never decreases, and
\* a step that changes it is the end of a record call (log_usage): create,
\* revoke, validate, check_rate_limit, get_user_api_keys and get_usage_stats
\* leave every stored requestCount as it was.
C16_CountOnlyByRecord ==
    /\ [](\A k \in KeyIds :
            apiKeys[k] # Absent => apiKeys[k].requestCount >= 0)
    /\ [][\A k \in KeyIds :
            (apiKeys[k] # Absent /\ apiKeys'[k] # Absent) =>
               /\ apiKeys'[k].requestCount >= apiKeys[k].requestCount
               /\ apiKeys'[k].requestCount # apiKeys[k].requestCount =>
                     ret'.op = "log_usage"]_vars

\* a revoke has written to a credential that had counted a request, and the
\* count is still there
C16_Witness ==
    /\ ret.op = "revoke_api_key" /\ ret.val = "True"
    /\ apiKeys[ret.key] # Absent
    /\ apiKeys[ret.key].requestCount >= 1

\* C17: a stored record whose isActive is false has isActive false in every
\* later state in which it exists.
C17_RevokedStaysRevoked ==
    [][\A k \in KeyIds :
         (/\ apiKeys[k] # Absent /\ ~apiKeys[k].isActive
          /\ apiKeys'[k] # Absent) => ~apiKeys'[k].isActive]_vars

\* a revoke of an already revoked record has written to it
C17_Witness ==
    /\ ret.op = "revoke_api_key" /\ ret.val = "True" /\ ~ret.was_active
    /\ apiKeys[ret.key] # Absent
    /\ ~apiKeys[ret.key].isActive

\* C18: a record call on a stored credential commits, and when it has, the
\* lastUsedAt of the credential is the timestamp of the usage log that call
\* wrote (the call that committed last wins).
C18_LastUsedIsLastCommit ==
    (db /\ ret.op = "log_usage" /\ ret.existed) =>
        /\ ret.kind = "return"
        /\ apiKeys[ret.key].lastUsedAt = ret.timestamp
        /\ \E l \in LogsOf(ret.key) : l.timestamp = ret.timestamp

\* C19: the step that ends a log_usage, revoke_api_key or delete_api_key on
\* credential A leaves the record and the usage logs of every other
\* credential B as they were.
C19_OtherCredentialsUntouched ==
    [][ret'.op \in {"log_usage", "revoke_api_key", "delete_api_key"} =>
         \A b \in KeyIds \ {ret'.key} :
            /\ apiKeys'[b] = apiKeys[b]
            /\ { l \in usageLogs' : l.apiKeyId = b } = LogsOf(b)]_vars

\* a delete has removed one credential while another one, with a usage log,
\* is stored
C19_Witness ==
    /\ ret.op = "delete_api_key" /\ ret.val = "True"
    /\ \E b \in KeyIds \ {ret.key} :
         apiKeys[b] # Absent /\ LogsOf(b) # {}

\* C20: revoke_api_key ends with a boolean and raises nothing, also when
\* delete_api_key removes the record between its existence check and its
\* update, and it never brings a removed record back.
C20_RevokeNeverRaises ==
    [][ret'.op = "revoke_api_key" =>
         /\ ret'.kind = "return"
         /\ ret'.val \in {"True", "False"}
         /\ apiKeys[ret'.key] = Absent => apiKeys'[ret'.key] = Absent]_vars

\* every log_usage call that has started comes to its end
LogUsageTerminates ==
    \A c \in Callers : (pc[c] = "log_txn") ~> (pc[c] = "idle")

\* C21: every record call that has started eventually ends, and ends either
\* by returning after its commit or with a terminal error of the store
\* (TransactionFailed, StoreUnavailable).
C21_RecordCommitsOrStoreError ==
    \A c \in Callers :
        (pc[c] = "log_txn") ~>
            /\ pc[c] = "idle"
            /\ ret.op = "log_usage"
            /\ \/ ret.kind = "return"
               \/ ret.val \in {"TransactionFailed", "StoreUnavailable"}

\* no validate_api_key call returns an ApiKey
ValidateNeverReturnsRecord ==
    ret.op = "validate_api_key" => ret.val # "ApiKey"

\* C22: when every caller keeps to the protocol validate, check_rate_limit,
\* log_usage only after True, every stored credential has
\* requestCount <= rateLimit in every reachable state.
C22_ProtocolKeepsCap ==
    \A k \in KeyIds :
        apiKeys[k] # Absent =>
            apiKeys[k].requestCount <= apiKeys[k].rateLimit

\* C23: in demo mode (self.db is None) nothing is ever stored: create_api_key
\* returns an ApiKey and its raw key, validate_api_key returns None,
\* revoke_api_key and delete_api_key return False, get_user_api_keys returns
\* an empty list, and log_usage and get_usage_stats return without a write.
C23_DemoModeStoresNothing ==
    ~db =>
        /\ \A k \in KeyIds : apiKeys[k] = Absent
        /\ usageLogs = {}
        /\ \A c \in Callers : pc[c] = "idle"
        /\ ret.op = "create_api_key" =>
              /\ ret.kind = "return" /\ ret.val = "ApiKey"
              /\ ret.raw \in generate_api_key
              /\ ret.rec.key_hash = hash_api_key(ret.raw)
        /\ ret.op = "validate_api_key" =>
              ret.kind = "return" /\ ret.val = "None"
        /\ ret.op \in {"revoke_api_key", "delete_api_key"} =>
              ret.kind = "return" /\ ret.val = "False"
        /\ ret.op = "get_user_api_keys" =>
              ret.kind = "return" /\ ret.val = "list" /\ ret.n = 0
        /\ ret.op = "log_usage" =>
              ret.kind = "return" /\ ret.val = "None"
        /\ ret.op = "get_usage_stats" =>
              ret.kind = "return" /\ ret.stats = <<>>

\* in demo mode a credential has been issued and a validate call came after
C23_Witness ==
    ~db /\ nextKey > 1 /\ ret.op = "validate_api_key"
====
